---------------------------- MODULE Spec2Model ----------------------------
(***************************************************************************)
(* A model of the in-memory Patricia Merkle tree: the facade of            *)
(* src/src/lib.rs over the node variants of src/src/nodes/*.rs and the     *)
(* hash engine of src/src/hashing.rs.                                      *)
(*                                                                         *)
(* Byte strings are sequences of integers 0..255.  Nibble positions are    *)
(* counted from 0 as in the source; TLA+ sequences are indexed from 1.     *)
(***************************************************************************)
EXTENDS Integers, Sequences, FiniteSets, TLC

(***************************************************************************)
(* Bounds of the model.                                                    *)
(***************************************************************************)
\* Number of insert calls in one behaviour.
MaxInserts == 3

\* The keys and values the operations draw their inputs from.  The keys
\* cover: the empty key, keys that differ in the first nibble, keys that
\* share the first nibble only, a key that is a nibble-prefix of another.
Keys == { <<>>, <<18>>, <<19>>, <<52>>, <<18, 0>> }

\* A value of one byte, and one too long for a node that holds it to be
\* embedded in its parent (33 bytes).
LongValue == [i \in 1..33 |-> 7]

Values == { <<1>>, LongValue }

(***************************************************************************)
(* References and arenas (slab::Slab).                                     *)
(***************************************************************************)
\* The sentinel of NodeRef and ValueRef ("absent").
INVALID_REF == -1

IsValid(ref) == ref # INVALID_REF

\* Slab::new(): no entry, no vacant slot.  `free` is the chain of vacant
\* keys, the most recently vacated first (the slab's `next` is its head, or
\* the length of `entries` when the chain is empty).
SlabNew == [entries |-> <<>>, free |-> <<>>]

SlabContains(slab, key) ==
    /\ key >= 0
    /\ key < Len(slab.entries)
    /\ slab.entries[key + 1].occ

SlabGet(slab, key) == slab.entries[key + 1].item

SlabLen(slab) == Cardinality({i \in 1..Len(slab.entries) : slab.entries[i].occ})

\* Slab::insert: the key is the head of the vacant chain, else a new slot.
SlabInsert(slab, item) ==
    IF slab.free = <<>>
    THEN [slab |-> [entries |-> Append(slab.entries, [occ |-> TRUE, item |-> item]),
                    free |-> <<>>],
          key |-> Len(slab.entries)]
    ELSE [slab |-> [entries |-> [slab.entries EXCEPT ![Head(slab.free) + 1] =
                                    [occ |-> TRUE, item |-> item]],
                    free |-> Tail(slab.free)],
          key |-> Head(slab.free)]

\* Slab::try_remove of a live key: the slot becomes the head of the chain.
\* The vacated slot keeps no content (`vacant` stands for it).
SlabRemove(slab, key, vacant) ==
    [entries |-> [slab.entries EXCEPT ![key + 1] = [occ |-> FALSE, item |-> vacant]],
     free |-> <<key>> \o slab.free]

\* Slab::get_mut followed by an assignment to the entry.
SlabSet(slab, key, item) ==
    [slab EXCEPT !.entries[key + 1] = [occ |-> TRUE, item |-> item]]

(***************************************************************************)
(* Nibbles.                                                                *)
(***************************************************************************)
\* The nibble at position i (from 0) of a byte string, high nibble first.
NibbleAt(data, i) ==
    IF i % 2 = 0 THEN data[(i \div 2) + 1] \div 16 ELSE data[(i \div 2) + 1] % 16

\* NibbleSlice::new: a view of the bytes at nibble offset 0.
NibbleSliceNew(data) == [data |-> data, offset |-> 0]

\* Number of nibbles left in the slice.
SliceRemaining(path) == 2 * Len(path.data) - path.offset

\* The nibbles the slice's iterator yields, as a sequence.
SliceNibbles(path) ==
    [i \in 1..SliceRemaining(path) |-> NibbleAt(path.data, path.offset + i - 1)]

\* NibbleSlice::offset_add.
OffsetAdd(path, delta) == [path EXCEPT !.offset = @ + delta]

\* Length of the longest common prefix of two nibble sequences.
RECURSIVE CommonPrefixLen(_, _)
CommonPrefixLen(a, b) ==
    IF a = <<>> \/ b = <<>> \/ Head(a) # Head(b)
    THEN 0
    ELSE 1 + CommonPrefixLen(Tail(a), Tail(b))

\* NibbleSlice::cmp_rest: the slice's bytes and the other bytes have the same
\* length and agree on every nibble from the slice's offset on.
CmpRest(path, other) ==
    /\ Len(path.data) = Len(other)
    /\ \A i \in path.offset .. (2 * Len(other) - 1) :
          NibbleAt(path.data, i) = NibbleAt(other, i)

\* NibbleSlice::skip_prefix: whether the next Len(prefix) nibbles are prefix.
SkipPrefix(path, prefix) ==
    /\ Len(prefix) <= SliceRemaining(path)
    /\ SubSeq(SliceNibbles(path), 1, Len(prefix)) = prefix

\* NibbleSlice::count_prefix_vec.
CountPrefixVec(path, prefix) == CommonPrefixLen(SliceNibbles(path), prefix)

\* NibbleSlice::split_to_vec: the next n nibbles as an owned vector.
SplitToVec(path, n) == SubSeq(SliceNibbles(path), 1, n)

\* A split that leaves the pivot at the head of the right part too.
SplitKeepPivot(prefix, offset) ==
    [left |-> SubSeq(prefix, 1, offset),
     choice |-> prefix[offset + 1],
     right |-> SubSeq(prefix, offset + 1, Len(prefix))]

\* NibbleVec::split_extract_at: (left, pivot, right) around position offset.
SplitExtractAt(prefix, offset) ==
    [left |-> SubSeq(prefix, 1, offset),
     choice |-> prefix[offset + 1],
     right |-> SubSeq(prefix, offset + 2, Len(prefix))]

(***************************************************************************)
(* Nodes.  Every arena entry is a record with the fields of all three      *)
(* variants; a variant leaves the fields of the others at their defaults.  *)
(***************************************************************************)
\* Output<H>::default(): 32 zero bytes.
ZeroOutput == [i \in 1..32 |-> 0]

\* NodeHash::default(): an empty (dirty) cache.
NodeHashDefault == [length |-> 0, hash_ref |-> ZeroOutput]

\* A mark_as_dirty that leaves the cache as it is.
KeepHash(node) == node

\* NodeHash::mark_as_dirty: the length is reset, the buffer is left as it is.
MarkAsDirty(node) == [node EXCEPT !.hash.length = 0]

NoChoices == [c \in 0..15 |-> INVALID_REF]

LeafNodeNew(value_ref) ==
    [kind |-> "Leaf", value_ref |-> value_ref, choices |-> NoChoices,
     prefix |-> <<>>, child_ref |-> INVALID_REF, hash |-> NodeHashDefault]

BranchNodeNew(choices) ==
    [kind |-> "Branch", value_ref |-> INVALID_REF, choices |-> choices,
     prefix |-> <<>>, child_ref |-> INVALID_REF, hash |-> NodeHashDefault]

\* An Extension that drops the prefix it is given.
ExtensionNodeNoPrefix(prefix, child_ref) ==
    [kind |-> "Extension", value_ref |-> INVALID_REF, choices |-> NoChoices,
     prefix |-> <<>>, child_ref |-> child_ref, hash |-> NodeHashDefault]

ExtensionNodeNew(prefix, child_ref) ==
    [kind |-> "Extension", value_ref |-> INVALID_REF, choices |-> NoChoices,
     prefix |-> prefix, child_ref |-> child_ref, hash |-> NodeHashDefault]

\* What a vacated slot of the node arena holds.
VacantNode ==
    [kind |-> "Vacant", value_ref |-> INVALID_REF, choices |-> NoChoices,
     prefix |-> <<>>, child_ref |-> INVALID_REF, hash |-> NodeHashDefault]

\* What a vacated slot of the value arena would hold.
VacantValue == [key |-> <<>>, value |-> <<>>]

\* An update_value_ref that leaves the node as it is.
KeepValueRef(node, new_value_ref) == node

\* update_value_ref of LeafNode and BranchNode.
UpdateValueRef(node, new_value_ref) == [node EXCEPT !.value_ref = new_value_ref]

(***************************************************************************)
(* Option<V> results, and the outcome of a call that may panic.            *)
(***************************************************************************)
None == [some |-> FALSE, v |-> <<>>]

Some(v) == [some |-> TRUE, v |-> v]

GetOk(opt) == [panic |-> FALSE, ret |-> opt]

GetPanic == [panic |-> TRUE, ret |-> None]

(***************************************************************************)
(* get                                                                     *)
(***************************************************************************)
RECURSIVE NodeGet(_, _, _, _)

\* LeafNode::get
LeafGet(self, nodes, values, path) ==
    IF ~SlabContains(values, self.value_ref)
    THEN GetPanic
    ELSE LET entry == SlabGet(values, self.value_ref)
         IN  IF CmpRest(path, entry.key) THEN GetOk(Some(entry.value)) ELSE GetOk(None)

\* The or_else arm of BranchNode::get: the branch's own value if present.
BranchOwnValue(self, values) ==
    IF IsValid(self.value_ref)
    THEN IF SlabContains(values, self.value_ref)
         THEN GetOk(Some(SlabGet(values, self.value_ref).value))
         ELSE GetPanic
    ELSE GetOk(None)

\* The and_then arm of BranchNode::get: the answer of choices[choice].
BranchDelegate(self, nodes, values, path) ==
    LET choice == NibbleAt(path.data, path.offset)
        child_ref == self.choices[choice]
    IN  IF IsValid(child_ref)
        THEN IF SlabContains(nodes, child_ref)
             THEN NodeGet(SlabGet(nodes, child_ref), nodes, values, OffsetAdd(path, 1))
             ELSE GetPanic
        ELSE GetOk(None)

\* BranchNode::get: path.next().and_then(<child>).or_else(<own value>); the
\* or_else arm runs whenever the and_then arm yields None.
BranchGet(self, nodes, values, path) ==
    IF SliceRemaining(path) > 0
    THEN LET r == BranchDelegate(self, nodes, values, path)
         IN  IF r.panic \/ r.ret.some THEN r ELSE BranchOwnValue(self, values)
    ELSE BranchOwnValue(self, values)

\* ExtensionNode::get
ExtensionGet(self, nodes, values, path) ==
    IF SkipPrefix(path, self.prefix)
    THEN IF SlabContains(nodes, self.child_ref)
         THEN NodeGet(SlabGet(nodes, self.child_ref), nodes, values,
                      OffsetAdd(path, Len(self.prefix)))
         ELSE GetPanic
    ELSE GetOk(None)

\* Node::get: dispatch on the variant.
NodeGet(node, nodes, values, path) ==
    CASE node.kind = "Leaf" -> LeafGet(node, nodes, values, path)
      [] node.kind = "Branch" -> BranchGet(node, nodes, values, path)
      [] node.kind = "Extension" -> ExtensionGet(node, nodes, values, path)
      [] OTHER -> GetPanic

\* PatriciaMerkleTree::get
TreeGet(tree, key) ==
    IF SlabContains(tree.nodes, tree.root_ref)
    THEN NodeGet(SlabGet(tree.nodes, tree.root_ref), tree.nodes, tree.values,
                 NibbleSliceNew(key))
    ELSE GetOk(None)

(***************************************************************************)
(* insert                                                                  *)
(***************************************************************************)
\* InsertAction
ActionInsert(node_ref) == [tag |-> "Insert", ref |-> node_ref]

ActionReplace(value_ref) == [tag |-> "Replace", ref |-> value_ref]

ActionInsertSelf == [tag |-> "InsertSelf", ref |-> INVALID_REF]

\* InsertAction::quantize_self: InsertSelf becomes Insert(self_ref).
QuantizeSelf(action, self_ref) ==
    IF action.tag = "InsertSelf" THEN ActionInsert(self_ref) ELSE action

\* The outcome of a node's insert: the new node, the node arena after the
\* call and the action; or a panic.
InsOk(node, nodes, action) ==
    [panic |-> FALSE, node |-> node, nodes |-> nodes, action |-> action]

InsPanic ==
    [panic |-> TRUE, node |-> VacantNode, nodes |-> SlabNew, action |-> ActionInsertSelf]

RECURSIVE NodeInsert(_, _, _, _)

\* The index the leaf split takes for a choice:
\* NibbleSlice::new(value_path).nth(offset), -1 standing for None.
LeafNth(value_path, offset) ==
    IF offset < 2 * Len(value_path) THEN NibbleAt(value_path, offset) ELSE -1

\* The branch a leaf split builds when offset == path.as_ref().len(): the
\* existing leaf under the choice, the value on the branch itself.
LeafSplitSelf(self, nodes, nth) ==
    LET ins == SlabInsert(nodes, self)
    IN  [nodes |-> ins.slab,
         branch |-> BranchNodeNew([NoChoices EXCEPT ![nth] = ins.key]),
         action |-> ActionInsertSelf]

\* The branch a leaf split builds when offset == value_path.as_ref().len():
\* a new leaf under the choice.
LeafSplitValue(self, nodes, nth) ==
    LET ins == SlabInsert(nodes, LeafNodeNew(INVALID_REF))
    IN  [nodes |-> ins.slab,
         branch |-> BranchNodeNew([NoChoices EXCEPT ![nth] = ins.key]),
         action |-> ActionInsert(ins.key)]

\* The branch a leaf split builds otherwise: the new leaf is stored first,
\* then the existing leaf; both assignments go to the same choice.
LeafSplitBoth(self, nodes, nth) ==
    LET child == SlabInsert(nodes, LeafNodeNew(INVALID_REF))
        old == SlabInsert(child.slab, self)
    IN  [nodes |-> old.slab,
         branch |-> BranchNodeNew([[NoChoices EXCEPT ![nth] = old.key]
                                      EXCEPT ![nth] = child.key]),
         action |-> ActionInsert(child.key)]

\* LeafNode::insert
LeafInsert(self0, nodes, values, path) ==
    LET self == MarkAsDirty(self0)
    IN  IF ~SlabContains(values, self.value_ref)
        THEN InsPanic
        ELSE
        LET value_path == SlabGet(values, self.value_ref).key
        IN  IF CmpRest(path, value_path)
            THEN InsOk(self, nodes, ActionReplace(self.value_ref))
            ELSE
            LET offset == CommonPrefixLen(SliceNibbles(NibbleSliceNew(value_path)),
                                          SliceNibbles(path))
                nth == LeafNth(value_path, offset)
            IN  IF nth = -1
                THEN InsPanic
                ELSE
                LET split == IF offset = Len(path.data)
                             THEN LeafSplitSelf(self, nodes, nth)
                             ELSE IF offset = Len(value_path)
                                  THEN LeafSplitValue(self, nodes, nth)
                                  ELSE LeafSplitBoth(self, nodes, nth)
                IN  IF offset # 0
                    THEN LET ins == SlabInsert(split.nodes, split.branch)
                         IN  InsOk(ExtensionNodeNew(SplitToVec(path, offset), ins.key),
                                   ins.slab,
                                   QuantizeSelf(split.action, ins.key))
                    ELSE InsOk(split.branch, split.nodes, split.action)

\* BranchNode::insert
BranchInsert(self0, nodes, values, path) ==
    LET self == MarkAsDirty(self0)
    IN  IF SliceRemaining(path) > 0
        THEN LET choice == NibbleAt(path.data, path.offset)
                 choice_ref == self.choices[choice]
             IN  IF ~IsValid(choice_ref)
                 THEN LET ins == SlabInsert(nodes, LeafNodeNew(INVALID_REF))
                      IN  InsOk([self EXCEPT !.choices[choice] = ins.key],
                                ins.slab, ActionInsert(ins.key))
                 ELSE IF ~SlabContains(nodes, choice_ref)
                      THEN InsPanic
                      ELSE
                      LET r == NodeInsert(SlabGet(nodes, choice_ref),
                                          SlabRemove(nodes, choice_ref, VacantNode),
                                          values, OffsetAdd(path, 1))
                      IN  IF r.panic
                          THEN InsPanic
                          ELSE LET ins == SlabInsert(r.nodes, r.node)
                               IN  InsOk([self EXCEPT !.choices[choice] = ins.key],
                                         ins.slab, QuantizeSelf(r.action, ins.key))
        ELSE IF IsValid(self.value_ref)
             THEN InsOk(self, nodes, ActionReplace(self.value_ref))
             ELSE InsOk(self, nodes, ActionInsertSelf)

\* The else arm of ExtensionNode::insert: the prefix is split around the
\* first nibble the path does not share.
ExtensionSplit(self, nodes, path) ==
    LET offset == CountPrefixVec(path, self.prefix)
        path1 == OffsetAdd(path, offset)
        parts == SplitExtractAt(self.prefix, offset)
        right == IF parts.right # <<>>
                 THEN SlabInsert(nodes, ExtensionNodeNew(parts.right, self.child_ref))
                 ELSE [slab |-> nodes, key |-> self.child_ref]
        has_next == SliceRemaining(path1) > 0
        leaf == IF has_next
                THEN SlabInsert(right.slab, LeafNodeNew(INVALID_REF))
                ELSE [slab |-> right.slab, key |-> INVALID_REF]
        choices1 == [NoChoices EXCEPT ![parts.choice] = right.key]
        choices2 == IF has_next
                    THEN [choices1 EXCEPT ![NibbleAt(path1.data, path1.offset)] = leaf.key]
                    ELSE choices1
        branch_node == BranchNodeNew(choices2)
    IN  IF parts.left # <<>>
        THEN LET ins == SlabInsert(leaf.slab, branch_node)
             IN  InsOk(ExtensionNodeNew(parts.left, ins.key), ins.slab,
                       ActionInsert(IF has_next THEN leaf.key ELSE ins.key))
        ELSE IF has_next
             THEN InsOk(branch_node, leaf.slab, ActionInsert(leaf.key))
             ELSE InsOk(branch_node, leaf.slab, ActionInsertSelf)

\* ExtensionNode::insert without the store of the child it took out.
ExtensionInsertUnstored(self0, nodes, values, path) ==
    LET self == MarkAsDirty(self0)
    IN  IF SkipPrefix(path, self.prefix)
        THEN IF ~SlabContains(nodes, self.child_ref)
             THEN InsPanic
             ELSE
             LET r == NodeInsert(SlabGet(nodes, self.child_ref),
                                 SlabRemove(nodes, self.child_ref, VacantNode),
                                 values, OffsetAdd(path, Len(self.prefix)))
             IN  IF r.panic
                 THEN InsPanic
                 ELSE InsOk(self, r.nodes, QuantizeSelf(r.action, self.child_ref))
        ELSE ExtensionSplit(self, nodes, path)

\* ExtensionNode::insert
ExtensionInsert(self0, nodes, values, path) ==
    LET self == MarkAsDirty(self0)
    IN  IF SkipPrefix(path, self.prefix)
        THEN IF ~SlabContains(nodes, self.child_ref)
             THEN InsPanic
             ELSE
             LET r == NodeInsert(SlabGet(nodes, self.child_ref),
                                 SlabRemove(nodes, self.child_ref, VacantNode),
                                 values, OffsetAdd(path, Len(self.prefix)))
             IN  IF r.panic
                 THEN InsPanic
                 ELSE LET ins == SlabInsert(r.nodes, r.node)
                      IN  InsOk([self EXCEPT !.child_ref = ins.key], ins.slab,
                                QuantizeSelf(r.action, ins.key))
        ELSE ExtensionSplit(self, nodes, path)

\* Node::insert: dispatch on the variant.
NodeInsert(node, nodes, values, path) ==
    CASE node.kind = "Leaf" -> LeafInsert(node, nodes, values, path)
      [] node.kind = "Branch" -> BranchInsert(node, nodes, values, path)
      [] node.kind = "Extension" -> ExtensionInsert(node, nodes, values, path)
      [] OTHER -> InsPanic

\* A trie: the fields of PatriciaMerkleTree.
TreeNew ==
    [root_ref |-> INVALID_REF, nodes |-> SlabNew, values |-> SlabNew,
     hash |-> [valid |-> FALSE, out |-> [k |-> "raw", b |-> ZeroOutput]]]

\* PatriciaMerkleTree::is_empty
TreeIsEmpty(tree) == SlabLen(tree.nodes) = 0

\* PatriciaMerkleTree::len
TreeLen(tree) == SlabLen(tree.values)

\* The outcome of the facade's insert: the trie after the call and the
\* returned Option<V>; or a panic.
TreeOk(tree, ret) == [panic |-> FALSE, tree |-> tree, ret |-> ret]

TreePanic == [panic |-> TRUE, tree |-> TreeNew, ret |-> None]

\* The Insert(node_ref) arm of PatriciaMerkleTree::insert.
ResolveInsert(tree, node_ref, path, value) ==
    LET vins == SlabInsert(tree.values, [key |-> path, value |-> value])
    IN  IF ~SlabContains(tree.nodes, node_ref)
        THEN TreePanic
        ELSE LET node == SlabGet(tree.nodes, node_ref)
             IN  IF node.kind \in {"Leaf", "Branch"}
                 THEN TreeOk([tree EXCEPT
                                 !.values = vins.slab,
                                 !.nodes = SlabSet(tree.nodes, node_ref,
                                                   UpdateValueRef(node, vins.key))],
                             None)
                 ELSE TreePanic

\* The Replace(value_ref) arm of PatriciaMerkleTree::insert.
ResolveReplace(tree, value_ref, value) ==
    IF ~SlabContains(tree.values, value_ref)
    THEN TreePanic
    ELSE LET old == SlabGet(tree.values, value_ref)
         IN  TreeOk([tree EXCEPT !.values =
                        SlabSet(tree.values, value_ref, [old EXCEPT !.value = value])],
                    Some(old.value))

\* The match on the action of PatriciaMerkleTree::insert, once the root
\* node is back in the arena under `ins.key`.
RootResolve(tree, ins, action0, path, value) ==
    LET tree1 == [tree EXCEPT !.root_ref = ins.key, !.nodes = ins.slab]
        action == QuantizeSelf(action0, ins.key)
    IN  IF action.tag = "Insert"
        THEN ResolveInsert(tree1, action.ref, path, value)
        ELSE ResolveReplace(tree1, action.ref, value)

\* The Some(root_node) arm of PatriciaMerkleTree::insert, r being what the
\* root node's insert returned.
RootInserted(tree, r, path, value) ==
    IF r.panic
    THEN TreePanic
    ELSE RootResolve(tree, SlabInsert(r.nodes, r.node), r.action, path, value)

\* The None arm of PatriciaMerkleTree::insert: the trie is empty, a leaf is
\* added for the value slot `vins.key`.
RootCreated(tree, vins) ==
    LET nins == SlabInsert(tree.nodes, LeafNodeNew(vins.key))
    IN  TreeOk([tree EXCEPT !.values = vins.slab, !.nodes = nins.slab,
                            !.root_ref = nins.key],
               None)

\* PatriciaMerkleTree::insert without the drop of the trie's cached hash.
TreeInsertCached(tree, path, value) ==
    IF SlabContains(tree.nodes, tree.root_ref)
    THEN RootInserted(tree,
                      NodeInsert(SlabGet(tree.nodes, tree.root_ref),
                                 SlabRemove(tree.nodes, tree.root_ref, VacantNode),
                                 tree.values, NibbleSliceNew(path)),
                      path, value)
    ELSE RootCreated(tree, SlabInsert(tree.values, [key |-> path, value |-> value]))

\* PatriciaMerkleTree::insert
TreeInsert(tree0, path, value) ==
    LET tree == [tree0 EXCEPT !.hash.valid = FALSE]
    IN  IF SlabContains(tree.nodes, tree.root_ref)
        THEN RootInserted(tree,
                          NodeInsert(SlabGet(tree.nodes, tree.root_ref),
                                     SlabRemove(tree.nodes, tree.root_ref, VacantNode),
                                     tree.values, NibbleSliceNew(path)),
                          path, value)
        ELSE RootCreated(tree, SlabInsert(tree.values, [key |-> path, value |-> value]))

(***************************************************************************)
(* The hash engine (hashing.rs).                                           *)
(***************************************************************************)
\* The digest H maps a byte string to; H is injective on the strings of a
\* behaviour, so a digest is represented by the string it was computed from.
Digest(bytes) == [k |-> "keccak", b |-> bytes]

\* 32 bytes copied into an Output<H> without hashing.
RawOutput(bytes) == [k |-> "raw", b |-> bytes]

\* NodeHashRef
Inline(bytes) == [kind |-> "Inline", bytes |-> bytes]

Hashed(bytes) == [kind |-> "Hashed", bytes |-> bytes]

\* NodeHash::extract_ref; kind "None" stands for a dirty cache.
ExtractRef(hash_) ==
    CASE hash_.length = 0 -> [kind |-> "None", bytes |-> <<>>]
      [] hash_.length = 32 -> Hashed(hash_.hash_ref)
      [] OTHER -> Inline(SubSeq(hash_.hash_ref, 1, hash_.length))

\* NodeHasher::new: the parent's length is reset; no sponge yet.  `fed` is
\* what the sponge has been updated with.
NodeHasherNew(parent) ==
    [length |-> 0, hash_ref |-> parent.hash_ref, hasher |-> FALSE, fed |-> <<>>]

\* NodeHasher::push_hash_update
PushHashUpdate(h) ==
    [h EXCEPT !.hasher = TRUE,
              !.fed = @ \o SubSeq(h.hash_ref, 1, h.length),
              !.length = 0]

Min(a, b) == IF a < b THEN a ELSE b

\* NodeHasher::write_raw
RECURSIVE WriteRaw(_, _)
WriteRaw(h, value) ==
    IF value = <<>>
    THEN h
    ELSE LET copy_len == Min(32 - h.length, Len(value))
             h1 == [h EXCEPT
                       !.hash_ref = [i \in 1..32 |->
                                        IF i > h.length /\ i <= h.length + copy_len
                                        THEN value[i - h.length]
                                        ELSE h.hash_ref[i]],
                       !.length = @ + copy_len]
             h2 == IF h1.length = 32 THEN PushHashUpdate(h1) ELSE h1
         IN  WriteRaw(h2, SubSeq(value, copy_len + 1, Len(value)))

\* NodeHasher::finalize: the cache the node is left with and the reference
\* returned.  With a sponge, the rest of the buffer is fed to it and the
\* length is set to 32; the buffer itself is what Hashed refers to.
Finalize(h) ==
    IF h.hasher
    THEN LET h1 == PushHashUpdate(h)
         IN  [hash |-> [length |-> 32, hash_ref |-> h1.hash_ref],
              out |-> Hashed(h1.hash_ref)]
    ELSE [hash |-> [length |-> h.length, hash_ref |-> h.hash_ref],
          out |-> Inline(SubSeq(h.hash_ref, 1, h.length))]

\* Number of bits of value: 8 * size_of::<usize>() - value.leading_zeros().
RECURSIVE BitsUsed(_)
BitsUsed(value) == IF value = 0 THEN 0 ELSE 1 + BitsUsed(value \div 2)

\* next_power_of_256: bits_used.saturating_sub(1) >> 3.
NextPowerOf256(value) ==
    LET bits_used == BitsUsed(value)
    IN  (IF bits_used = 0 THEN 0 ELSE bits_used - 1) \div 8

\* The last n bytes of value.to_be_bytes().
RECURSIVE BeBytes(_, _)
BeBytes(value, n) ==
    IF n = 0 THEN <<>> ELSE Append(BeBytes(value \div 256, n - 1), value % 256)

\* NodeHasher::bytes_len
BytesLen(value_len, first_value) ==
    CASE value_len = 1 /\ first_value < 128 -> 1
      [] value_len < 56 -> value_len + 1
      [] OTHER -> value_len + NextPowerOf256(value_len) + 1

\* NodeHasher::list_len
ListLen(children_len) ==
    IF children_len < 56
    THEN children_len + 1
    ELSE children_len + NextPowerOf256(children_len) + 1

\* NodeHasher::path_len_vec and path_len_slice, of a path of `count` nibbles.
PathLen(count) == BytesLen((count \div 2) + 1, 0)

\* PathKind::into_flag
IntoFlag(kind) == IF kind = "Extension" THEN 0 ELSE 32

\* The bytes the loop of write_path_vec / write_path_slice writes: with an
\* odd count the first nibble goes to the flag, and the remaining nibbles are
\* packed two per byte.  The flag itself is not written.
PathPairs(nibbles) ==
    LET rest == IF Len(nibbles) % 2 # 0 THEN Tail(nibbles) ELSE nibbles
    IN  [i \in 1..(Len(rest) \div 2) |-> rest[2 * i - 1] * 16 + rest[2 * i]]

\* write_raw appends to the buffer and the sponge, so a run of writes leaves
\* the hasher as one write of their concatenation does.  The writers below
\* are given by the bytes they pass to write_raw, in order.

\* NodeHasher::write_path_vec and write_path_slice.
WritePath(nibbles, kind) == PathPairs(nibbles)

\* NodeHasher::write_bytes
WriteBytes(value) ==
    LET l == Len(value)
    IN  (CASE l = 1 /\ value[1] < 128 -> <<>>
           [] l < 56 -> <<128 + l>>
           [] OTHER -> <<183 + NextPowerOf256(l)>> \o BeBytes(l, NextPowerOf256(l)))
        \o value

\* NodeHasher::write_list_header
WriteListHeader(children_len) ==
    IF children_len < 56
    THEN <<192 + children_len>>
    ELSE <<247 + NextPowerOf256(children_len)>>
         \o BeBytes(children_len, NextPowerOf256(children_len))

(***************************************************************************)
(* compute_hash                                                            *)
(***************************************************************************)
\* The outcome of a node's compute_hash: the node arena with the caches the
\* call has filled, and the reference returned; or a panic.
HashOk(nodes, out) == [panic |-> FALSE, nodes |-> nodes, out |-> out]

HashPanic == [panic |-> TRUE, nodes |-> SlabNew, out |-> Inline(<<>>)]

RECURSIVE NodeComputeHash(_, _, _, _)

\* The children of a branch, hashed in the order of the choices from c on:
\* `outs` collects the reference of every choice (kind "None" if absent).
RECURSIVE BranchChildren(_, _, _, _, _, _)
BranchChildren(nodes, values, choices, c, key_offset, outs) ==
    IF c = 16
    THEN [panic |-> FALSE, nodes |-> nodes, outs |-> outs]
    ELSE IF ~IsValid(choices[c])
         THEN BranchChildren(nodes, values, choices, c + 1, key_offset,
                             Append(outs, [kind |-> "None", bytes |-> <<>>]))
         ELSE LET r == NodeComputeHash(nodes, values, choices[c], key_offset + 1)
              IN  IF r.panic
                  THEN [panic |-> TRUE, nodes |-> SlabNew, outs |-> <<>>]
                  ELSE BranchChildren(r.nodes, values, choices, c + 1, key_offset,
                                      Append(outs, r.out))

\* The sum that BranchNode::compute_hash starts children_len with.
RECURSIVE ChildrenLen(_)
ChildrenLen(outs) ==
    IF outs = <<>>
    THEN 0
    ELSE (IF Head(outs).kind = "None" THEN 1 ELSE Len(Head(outs).bytes))
         + ChildrenLen(Tail(outs))

\* The writes BranchNode::compute_hash makes for the choices.
RECURSIVE WriteChildren(_)
WriteChildren(outs) ==
    IF outs = <<>>
    THEN <<>>
    ELSE (IF Head(outs).kind = "None" THEN WriteBytes(<<>>) ELSE Head(outs).bytes)
         \o WriteChildren(Tail(outs))

\* BranchNode::compute_hash of the branch at self_ref.
BranchComputeHash(nodes, values, self_ref, key_offset) ==
    LET self == SlabGet(nodes, self_ref)
        cached == ExtractRef(self.hash)
    IN  IF cached.kind # "None"
        THEN HashOk(nodes, cached)
        ELSE
        LET ch == BranchChildren(nodes, values, self.choices, 0, key_offset, <<>>)
        IN  IF ch.panic \/ (IsValid(self.value_ref) /\ ~SlabContains(values, self.value_ref))
            THEN HashPanic
            ELSE
            LET value == IF IsValid(self.value_ref)
                         THEN SlabGet(values, self.value_ref).value
                         ELSE <<>>
                children_len ==
                    ChildrenLen(ch.outs)
                    + (IF IsValid(self.value_ref)
                       THEN BytesLen(Len(value), IF value = <<>> THEN 0 ELSE value[1])
                       ELSE 0)
                written == WriteListHeader(children_len)
                           \o WriteChildren(ch.outs)
                           \o (IF IsValid(self.value_ref) THEN WriteBytes(value) ELSE <<>>)
                fin == Finalize(WriteRaw(NodeHasherNew(self.hash), written))
            IN  HashOk(SlabSet(ch.nodes, self_ref, [self EXCEPT !.hash = fin.hash]),
                       fin.out)

\* ExtensionNode::compute_hash of the extension at self_ref.
ExtensionComputeHash(nodes, values, self_ref, key_offset) ==
    LET self == SlabGet(nodes, self_ref)
        cached == ExtractRef(self.hash)
    IN  IF cached.kind # "None"
        THEN HashOk(nodes, cached)
        ELSE
        LET r == NodeComputeHash(nodes, values, self.child_ref,
                                 key_offset + Len(self.prefix))
        IN  IF r.panic
            THEN HashPanic
            ELSE
            LET prefix_len == PathLen(Len(self.prefix))
                child_len == IF r.out.kind = "Inline"
                             THEN Len(r.out.bytes)
                             ELSE BytesLen(Len(r.out.bytes), r.out.bytes[1])
                written == WriteListHeader(prefix_len + child_len)
                           \o WritePath(self.prefix, "Extension")
                           \o (IF r.out.kind = "Inline"
                               THEN r.out.bytes
                               ELSE WriteBytes(r.out.bytes))
                fin == Finalize(WriteRaw(NodeHasherNew(self.hash), written))
            IN  HashOk(SlabSet(r.nodes, self_ref, [self EXCEPT !.hash = fin.hash]),
                       fin.out)

\* LeafNode::compute_hash of the leaf at self_ref: the list of the key's
\* nibbles from key_offset on, as a leaf path, and the value.
LeafComputeHash(nodes, values, self_ref, key_offset) ==
    LET self == SlabGet(nodes, self_ref)
        cached == ExtractRef(self.hash)
    IN  IF cached.kind # "None"
        THEN HashOk(nodes, cached)
        ELSE IF ~SlabContains(values, self.value_ref)
        THEN HashPanic
        ELSE
        LET entry == SlabGet(values, self.value_ref)
            value == entry.value
            path == OffsetAdd(NibbleSliceNew(entry.key), key_offset)
            path_len == PathLen(Len(SliceNibbles(path)))
            value_len == BytesLen(Len(value), IF value = <<>> THEN 0 ELSE value[1])
            written == WriteListHeader(path_len + value_len)
                       \o WritePath(SliceNibbles(path), "Leaf")
                       \o WriteBytes(value)
            fin == Finalize(WriteRaw(NodeHasherNew(self.hash), written))
        IN  HashOk(SlabSet(nodes, self_ref, [self EXCEPT !.hash = fin.hash]), fin.out)

\* Node::compute_hash: dispatch on the variant of the node at node_ref.
NodeComputeHash(nodes, values, node_ref, key_offset) ==
    IF ~SlabContains(nodes, node_ref)
    THEN HashPanic
    ELSE CASE SlabGet(nodes, node_ref).kind = "Leaf" ->
                  LeafComputeHash(nodes, values, node_ref, key_offset)
           [] SlabGet(nodes, node_ref).kind = "Branch" ->
                  BranchComputeHash(nodes, values, node_ref, key_offset)
           [] SlabGet(nodes, node_ref).kind = "Extension" ->
                  ExtensionComputeHash(nodes, values, node_ref, key_offset)
           [] OTHER -> HashPanic

\* Option<&Output<H>> results.
NoOutput == [some |-> FALSE, out |-> RawOutput(ZeroOutput)]

SomeOutput(out) == [some |-> TRUE, out |-> out]

\* The digest compute_hash stores for what the root node returned.
RootOutput(out) ==
    IF out.kind = "Inline" THEN Digest(out.bytes) ELSE RawOutput(out.bytes)

\* The end of a compute_hash that marks the cache clean without storing the
\* digest in it.
RootHashedUnstored(tree, r) ==
    IF r.panic
    THEN [panic |-> TRUE, tree |-> tree, ret |-> NoOutput]
    ELSE [panic |-> FALSE,
          tree |-> [tree EXCEPT !.nodes = r.nodes, !.hash.valid = TRUE],
          ret |-> SomeOutput(RootOutput(r.out))]

\* The end of compute_hash, r being what the root node's compute_hash
\* returned: the digest is stored and the cache marked clean.
RootHashed(tree, r) ==
    IF r.panic
    THEN [panic |-> TRUE, tree |-> tree, ret |-> NoOutput]
    ELSE [panic |-> FALSE,
          tree |-> [tree EXCEPT !.nodes = r.nodes,
                                !.hash = [valid |-> TRUE, out |-> RootOutput(r.out)]],
          ret |-> SomeOutput(RootOutput(r.out))]

\* PatriciaMerkleTree::compute_hash: the trie after the call and the result.
TreeComputeHash(tree) ==
    IF tree.hash.valid
    THEN [panic |-> FALSE, tree |-> tree, ret |-> SomeOutput(tree.hash.out)]
    ELSE IF ~IsValid(tree.root_ref)
    THEN [panic |-> FALSE, tree |-> tree, ret |-> NoOutput]
    ELSE RootHashed(tree, NodeComputeHash(tree.nodes, tree.values, tree.root_ref, 0))

(***************************************************************************)
(* The state machine.                                                      *)
(***************************************************************************)
VARIABLES
    root_ref,   \* PatriciaMerkleTree.root_ref
    nodes,      \* PatriciaMerkleTree.nodes
    values,     \* PatriciaMerkleTree.values
    hash,       \* PatriciaMerkleTree.hash: (valid, digest)
    status,     \* "ok", or "panic" once a call has panicked
    hist,       \* the insert calls made so far: <<[key, value], ...>>
    last,       \* the last call made and what it returned
    node_hasher \* a NodeHasher over the cache of a node, outside compute_hash

vars == <<root_ref, nodes, values, hash, status, hist, last, node_hasher>>

\* The trie the variables hold.
Tree == [root_ref |-> root_ref, nodes |-> nodes, values |-> values, hash |-> hash]

\* A call and what it returned: `ret` for insert and get, `out` for
\* compute_hash; `again` says that the call before it was the same one.
Call(op, key, value, ret, out, again) ==
    [op |-> op, key |-> key, value |-> value, ret |-> ret, out |-> out,
     again |-> again]

NoCall == Call("new", <<>>, <<>>, None, NoOutput, FALSE)

\* PatriciaMerkleTree::new
Init ==
    /\ root_ref = TreeNew.root_ref
    /\ nodes = TreeNew.nodes
    /\ values = TreeNew.values
    /\ hash = TreeNew.hash
    /\ status = "ok"
    /\ hist = <<>>
    /\ last = NoCall
    /\ node_hasher = NodeHasherNew(NodeHashDefault)

\* A call of insert(key, value) returns r (or panics).
InsertReturn(r, key, value) ==
    IF r.panic
    THEN /\ status' = "panic"
         /\ last' = Call("insert", key, value, None, NoOutput, FALSE)
         /\ UNCHANGED <<root_ref, nodes, values, hash>>
    ELSE /\ status' = "ok"
         /\ root_ref' = r.tree.root_ref
         /\ nodes' = r.tree.nodes
         /\ values' = r.tree.values
         /\ hash' = r.tree.hash
         /\ last' = Call("insert", key, value, r.ret, NoOutput, FALSE)

\* A call of insert(key, value).
Insert(key, value) ==
    /\ status = "ok"
    /\ Len(hist) < MaxInserts
    /\ hist' = Append(hist, [key |-> key, value |-> value])
    /\ InsertReturn(TreeInsert(Tree, key, value), key, value)
    /\ UNCHANGED node_hasher

\* A call of get(key) returns r (or panics).
GetReturn(r, key) ==
    /\ status' = IF r.panic THEN "panic" ELSE "ok"
    /\ last' = Call("get", key, <<>>, r.ret, NoOutput, FALSE)

\* A call of get(key).
Get(key) ==
    /\ status = "ok"
    /\ GetReturn(TreeGet(Tree, key), key)
    /\ UNCHANGED <<root_ref, nodes, values, hash, hist, node_hasher>>

\* A call of compute_hash() returns r (or panics).
ComputeHashReturn(r) ==
    /\ status' = IF r.panic THEN "panic" ELSE "ok"
    /\ nodes' = r.tree.nodes
    /\ hash' = r.tree.hash
    /\ last' = Call("compute_hash", <<>>, <<>>, None, r.ret, last.op = "compute_hash")

\* A call of compute_hash().
ComputeHash ==
    /\ status = "ok"
    /\ ComputeHashReturn(TreeComputeHash(Tree))
    /\ UNCHANGED <<root_ref, values, hist, node_hasher>>

Next ==
    \/ \E key \in Keys, value \in Values : Insert(key, value)
    \/ \E key \in Keys : Get(key)
    \/ ComputeHash

Spec == Init /\ [][Next]_vars

(***************************************************************************)
(* The mapping the calls describe.                                         *)
(***************************************************************************)
\* The keys of a sequence of insert calls.
KeysOf(calls) == { calls[i].key : i \in 1..Len(calls) }

\* The value of the last call for `key` in a sequence of insert calls.
ValueOf(calls, key) ==
    LET i == CHOOSE i \in 1..Len(calls) :
                 /\ calls[i].key = key
                 /\ \A j \in (i + 1)..Len(calls) : calls[j].key # key
    IN  calls[i].value

\* No key is inserted twice.
DistinctKeys(calls) ==
    \A i, j \in 1..Len(calls) : i # j => calls[i].key # calls[j].key

\* The insert calls made before the last one.
Before == SubSeq(hist, 1, Len(hist) - 1)

\* The last call was an insert and it returned.
InsertReturned == status = "ok" /\ last.op = "insert"

(***************************************************************************)
(* C1 .. C5: the map contract.                                             *)
(***************************************************************************)
\* C1.  Retrievability: after distinct keys k_1..k_n have been inserted into
\* a new trie, get(k_i) returns Some(v_i) for every i.
C1_Retrievability ==
    (status = "ok" /\ hist # <<>> /\ DistinctKeys(hist))
        => \A key \in KeysOf(hist) :
               TreeGet(Tree, key) = GetOk(Some(ValueOf(hist, key)))

\* C2.  Overwrite semantics: insert(k, v1) followed by insert(k, v2) makes
\* the second call return Some(v1), and a following get(k) returns Some(v2).
C2_Overwrite ==
    (/\ InsertReturned
     /\ Before # <<>>
     /\ Before[Len(Before)].key = last.key)
        => /\ last.ret = Some(Before[Len(Before)].value)
           /\ TreeGet(Tree, last.key) = GetOk(Some(last.value))

\* C3.  After any sequence of inserts, get(k) returns None for every key k
\* that was never inserted; a Branch answers with its own value only when
\* the path is exhausted.
C3_GetAbsent ==
    status = "ok"
        => \A key \in Keys \ KeysOf(hist) : TreeGet(Tree, key) = GetOk(None)

\* C4.  insert(k, v) returns None if and only if k was not present before
\* the call, and Some(previous value) otherwise.
C4_InsertReturn ==
    InsertReturned
        => IF last.key \in KeysOf(Before)
           THEN last.ret = Some(ValueOf(Before, last.key))
           ELSE last.ret = None

\* C5.  After any sequence of inserts, len() is the number of distinct keys
\* inserted so far.
C5_Len ==
    status = "ok" => TreeLen(Tree) = Cardinality(KeysOf(hist))

(***************************************************************************)
(* C6 .. C10: the root hash.                                               *)
(***************************************************************************)
\* The orders in which n calls can be made.
Orders(n) ==
    { f \in [1..n -> 1..n] : \A i, j \in 1..n : f[i] = f[j] => i = j }

Reorder(calls, f) == [i \in 1..Len(calls) |-> calls[f[i]]]

\* The insert calls made one after the other on `tree`.
RECURSIVE InsertAll(_, _)
InsertAll(tree, calls) ==
    IF calls = <<>>
    THEN TreeOk(tree, None)
    ELSE LET r == TreeInsert(tree, Head(calls).key, Head(calls).value)
         IN  IF r.panic THEN TreePanic ELSE InsertAll(r.tree, Tail(calls))

\* What compute_hash returns (or that it panics), without the trie it leaves.
Returned(r) == [panic |-> r.panic, ret |-> r.ret]

\* compute_hash on a new trie after the insert calls.
RootAfter(calls) ==
    LET t == InsertAll(TreeNew, calls)
    IN  IF t.panic
        THEN [panic |-> TRUE, ret |-> NoOutput]
        ELSE Returned(TreeComputeHash(t.tree))

\* C6.  Root-hash determinism: for pairs with distinct keys, every
\* permutation of the insertion order into a new trie yields the same
\* compute_hash result.
C6_Determinism ==
    (status = "ok" /\ DistinctKeys(hist))
        => \A f \in Orders(Len(hist)) :
               RootAfter(Reorder(hist, f)) = Returned(TreeComputeHash(Tree))

(***************************************************************************)
(* The reference Merkle Patricia Trie: the wire format of the              *)
(* specification (hex-prefix paths, RLP node encodings, inline child       *)
(* references below 32 bytes).                                             *)
(***************************************************************************)
\* The nibbles of a key, high nibble first.
Nibbles(key) == [i \in 1..(2 * Len(key)) |-> NibbleAt(key, i - 1)]

\* Two nibbles packed per byte, high then low.
RECURSIVE Pack(_)
Pack(nibbles) ==
    IF Len(nibbles) < 2
    THEN <<>>
    ELSE <<16 * nibbles[1] + nibbles[2]>> \o Pack(SubSeq(nibbles, 3, Len(nibbles)))

\* Hex-prefix encoding of a nibble sequence tagged leaf or extension.
HexPrefix(nibbles, kind) ==
    LET kind_flag == IF kind = "Leaf" THEN 32 ELSE 0
    IN  IF Len(nibbles) % 2 = 1
        THEN <<kind_flag + 16 + nibbles[1]>> \o Pack(Tail(nibbles))
        ELSE <<kind_flag>> \o Pack(nibbles)

\* The minimum number of bytes that represent n > 0.
RECURSIVE MinBytes(_)
MinBytes(n) == IF n < 256 THEN 1 ELSE 1 + MinBytes(n \div 256)

\* RLP of a byte string.
RlpString(bytes) ==
    LET l == Len(bytes)
    IN  CASE l = 1 /\ bytes[1] < 128 -> bytes
          [] l < 56 -> <<128 + l>> \o bytes
          [] OTHER -> <<183 + MinBytes(l)>> \o BeBytes(l, MinBytes(l)) \o bytes

\* RLP of a list, given the concatenation of its items' encodings.
RlpList(payload) ==
    LET l == Len(payload)
    IN  IF l < 56
        THEN <<192 + l>> \o payload
        ELSE <<247 + MinBytes(l)>> \o BeBytes(l, MinBytes(l)) \o payload

\* The 32 bytes of a digest inside an encoding; their values are not modelled.
OpaqueDigest == [i \in 1..32 |-> -1]

\* A child reference: the encoding itself below 32 bytes, else its digest.
RefChild(encoding) ==
    IF Len(encoding) < 32 THEN encoding ELSE RlpString(OpaqueDigest)

\* The number of nibbles after `depth` that all the paths share.
RECURSIVE RefCommon(_, _, _)
RefCommon(pairs, depth, n) ==
    IF /\ \A p \in pairs : Len(p.nibbles) > depth + n
       /\ \A p, q \in pairs : p.nibbles[depth + n + 1] = q.nibbles[depth + n + 1]
    THEN RefCommon(pairs, depth, n + 1)
    ELSE n

RECURSIVE RefNode(_, _)

\* The child items of a branch from choice c on.
RECURSIVE RefChoices(_, _, _)
RefChoices(pairs, depth, c) ==
    IF c = 16
    THEN <<>>
    ELSE LET sub == { p \in pairs : Len(p.nibbles) > depth /\ p.nibbles[depth + 1] = c }
         IN  (IF sub = {} THEN RlpString(<<>>) ELSE RefChild(RefNode(sub, depth + 1)))
             \o RefChoices(pairs, depth, c + 1)

\* The encoding of the canonical node for a non-empty set of pairs whose
\* paths agree on their first `depth` nibbles.
RefNode(pairs, depth) ==
    IF Cardinality(pairs) = 1
    THEN LET p == CHOOSE p \in pairs : TRUE
         IN  RlpList(RlpString(HexPrefix(SubSeq(p.nibbles, depth + 1, Len(p.nibbles)),
                                         "Leaf"))
                     \o RlpString(p.value))
    ELSE LET n == RefCommon(pairs, depth, 0)
             p == CHOOSE p \in pairs : TRUE
             own == { q \in pairs : Len(q.nibbles) = depth }
         IN  IF n > 0
             THEN RlpList(RlpString(HexPrefix(SubSeq(p.nibbles, depth + 1, depth + n),
                                              "Extension"))
                          \o RefChild(RefNode(pairs, depth + n)))
             ELSE RlpList(RefChoices(pairs, depth, 0)
                          \o (IF own = {}
                              THEN RlpString(<<>>)
                              ELSE RlpString((CHOOSE q \in own : TRUE).value)))

\* The encoding of the root node of the reference trie for the mapping that
\* a non-empty sequence of insert calls describes.
RefRootNode(calls) ==
    RefNode({ [nibbles |-> Nibbles(key), value |-> ValueOf(calls, key)] :
                  key \in KeysOf(calls) }, 0)

\* No digest occurs inside the encoding: every child is embedded verbatim.
AllInline(encoding) == \A i \in 1..Len(encoding) : encoding[i] >= 0

\* C7.  Root-hash agreement: for every non-empty mapping built by inserts,
\* compute_hash returns the digest of the RLP encoding of the root node of
\* the reference trie for that mapping (stated for the mappings whose
\* nodes below the root are all embedded verbatim).
C7_Agreement ==
    (/\ status = "ok"
     /\ hist # <<>>
     /\ last.op = "compute_hash"
     /\ AllInline(RefRootNode(hist)))
        => last.out = SomeOutput(Digest(RefRootNode(hist)))

\* C8.  compute_hash on a trie into which nothing has been inserted returns
\* the digest of the single byte 0x80.
C8_EmptyRoot ==
    (status = "ok" /\ hist = <<>> /\ last.op = "compute_hash")
        => last.out = SomeOutput(Digest(<<128>>))

\* C9.  Idempotence of compute_hash: a compute_hash call that follows a
\* compute_hash call returns the same value, leaves the root ref, the nodes
\* and the values as they are, and changes the result of no get.
C9_Idempotence ==
    [][(last.op = "compute_hash" /\ last'.op = "compute_hash" /\ last'.again)
          => /\ status' = "ok"
             /\ last'.out = last.out
             /\ root_ref' = root_ref
             /\ nodes' = nodes
             /\ values' = values
             /\ \A key \in Keys : TreeGet(Tree', key) = TreeGet(Tree, key)]_vars

\* A second compute_hash call in a row has returned on a trie that holds
\* two keys or more.
C9_Witness ==
    /\ status = "ok"
    /\ last.op = "compute_hash"
    /\ last.again
    /\ last.out.some
    /\ Cardinality(KeysOf(hist)) >= 2

\* C10.  No-op invariance: if get(k) = Some(v), then compute_hash after
\* insert(k, v) returns what compute_hash returned before the insert.
C10_NoOpInsert ==
    [][(/\ status = "ok"
        /\ last.op = "compute_hash"
        /\ last'.op = "insert"
        /\ TreeGet(Tree, last'.key) = GetOk(Some(last'.value)))
          => /\ status' = "ok"
             /\ TreeComputeHash(Tree').ret = last.out]_vars

(***************************************************************************)
(* C11: panics.                                                            *)
(***************************************************************************)
\* C11.  No sequence of new, insert, get and compute_hash calls reaches a
\* panic (an "inconsistent internal tree structure" expect, an
\* unreachable!(), a failed unwrap, an out-of-range split).
C11_NoPanic == status = "ok"

(***************************************************************************)
(* The streaming root hash over sorted input (util.rs).                    *)
(***************************************************************************)
\* The number of pairs handed to compute_hash_from_sorted_iter.
MaxPairs == 4

\* NibblePrefix::len
NibblePrefixLen(prefix) == 2 * Len(prefix.data) - (IF prefix.half THEN 1 ELSE 0)

\* NibblePrefix::get_nth; -1 stands for its panics (the explicit one and the
\* index out of the bytes).
NibblePrefixGetNth(prefix, index) ==
    IF index \div 2 >= Len(prefix.data)
    THEN -1
    ELSE IF index % 2 = 1 /\ (index \div 2) + 1 = Len(prefix.data) /\ prefix.half
    THEN -1
    ELSE NibbleAt(prefix.data, index)

\* NibblePrefix::truncate: the byte of a trailing half is kept whole.
NibblePrefixTruncate(prefix, prefix_len) ==
    [data |-> SubSeq(prefix.data, 1, (prefix_len + 1) \div 2),
     half |-> prefix_len % 2 # 0]

\* NibblePrefix::count_prefix_len: whole bytes first (at most len() minus
\* the trailing half of them), then the high nibble of the next byte.
CountPrefixLen(prefix, other) ==
    LET limit == Min(NibblePrefixLen(prefix) - (IF prefix.half THEN 1 ELSE 0),
                     Min(Len(prefix.data), Len(other)))
        count == CHOOSE n \in 0..limit :
                     /\ \A i \in 1..n : prefix.data[i] = other[i]
                     /\ n = limit \/ prefix.data[n + 1] # other[n + 1]
    IN  IF /\ count < Len(prefix.data)
           /\ count < Len(other)
           /\ prefix.data[count + 1] \div 16 = other[count + 1] \div 16
        THEN 2 * count + 1
        ELSE 2 * count

\* StackFrame::new_leaf over NibblePrefix::new.  `choices` holds the encoding of each child (empty
\* for none); has_choices and has_value are the two Options.
StackFrameNewLeaf(path, value) ==
    [offset |-> 2 * Len(path),
     prefix |-> [data |-> path, half |-> FALSE],
     has_choices |-> FALSE,
     choices |-> [c \in 0..15 |-> <<>>],
     has_value |-> TRUE,
     value |-> value]

\* The branch frame pop_and_hash builds around one hashed child.
StackFrameNewBranch(popped_frame, target_len, next_nibble, child) ==
    [offset |-> target_len,
     prefix |-> NibblePrefixTruncate(popped_frame.prefix, target_len),
     has_choices |-> TRUE,
     choices |-> [c \in 0..15 |-> IF c = next_nibble THEN child ELSE <<>>],
     has_value |-> FALSE,
     value |-> <<>>]

\* compute_leaf_hash: the encoding of a leaf.
ComputeLeafHash(path, value) ==
    RlpList(RlpString(HexPrefix(SliceNibbles(path), "Leaf")) \o RlpString(value))

\* The items of a branch from choice c on.
RECURSIVE BranchItems(_, _)
BranchItems(choices, c) ==
    IF c = 16
    THEN <<>>
    ELSE (IF choices[c] = <<>> THEN RlpString(<<>>) ELSE RefChild(choices[c]))
         \o BranchItems(choices, c + 1)

\* compute_branch_hash: the encoding of a branch.
ComputeBranchHash(choices, has_value, value) ==
    RlpList(BranchItems(choices, 0)
            \o (IF has_value THEN RlpString(value) ELSE RlpString(<<>>)))

\* compute_extension_hash: the encoding of an extension over a child.
ComputeExtensionHash(prefix, child) ==
    RlpList(RlpString(HexPrefix(prefix, "Extension")) \o RefChild(child))

\* What a closure hands back: a value, or a panic.
SortedOk(v) == [panic |-> FALSE, v |-> v]

SortedPanic == [panic |-> TRUE, v |-> <<>>]

\* The closure hash_frame: the encoding of the node a frame stands for, seen
\* from nibble offset_delta of its prefix.
HashFrame(frame, offset_delta) ==
    IF frame.has_choices
    THEN IF NibblePrefixLen(frame.prefix) > offset_delta
         THEN SortedOk(ComputeExtensionHash(
                  SplitToVec(OffsetAdd(NibbleSliceNew(frame.prefix.data), offset_delta),
                             NibblePrefixLen(frame.prefix) - offset_delta),
                  ComputeBranchHash(frame.choices, frame.has_value, frame.value)))
         ELSE SortedOk(ComputeBranchHash(frame.choices, frame.has_value, frame.value))
    ELSE IF frame.has_value
    THEN IF frame.prefix.half \/ offset_delta > 2 * Len(frame.prefix.data)
         THEN SortedPanic
         ELSE SortedOk(ComputeLeafHash(
                  OffsetAdd(NibbleSliceNew(frame.prefix.data), offset_delta),
                  frame.value))
    ELSE SortedPanic

\* The closure pop_and_hash: the popped frame is hashed from target_len + 1
\* on; the hash goes into the frame below when that one ends at
\* target_len, else into a new branch frame pushed in its place.
PopAndHash(stack, target_len) ==
    LET rest == SubSeq(stack, 1, Len(stack) - 1)
        popped_frame == stack[Len(stack)]
        hashed == HashFrame(popped_frame, target_len + 1)
        next_nibble == NibblePrefixGetNth(popped_frame.prefix, target_len)
    IN  IF hashed.panic \/ next_nibble < 0
        THEN SortedPanic
        ELSE IF rest = <<>>
        THEN IF NibblePrefixLen(popped_frame.prefix) = 0
             THEN SortedPanic
             ELSE SortedOk(<<StackFrameNewBranch(popped_frame, target_len,
                                                 next_nibble, hashed.v)>>)
        ELSE IF NibblePrefixLen(rest[Len(rest)].prefix) = target_len
        THEN SortedOk([rest EXCEPT ![Len(rest)].has_choices = TRUE,
                                   ![Len(rest)].choices[next_nibble] = hashed.v])
        ELSE SortedOk(Append(rest, StackFrameNewBranch(popped_frame, target_len,
                                                       next_nibble, hashed.v)))

\* The common prefix alone as the length to pop to.
PopCommon(stack, common_prefix_len) == common_prefix_len

\* The length pop_until_target pops to: the common prefix, but no shorter
\* than the frame below.
PopTarget(stack, common_prefix_len) ==
    IF Len(stack) < 2
    THEN common_prefix_len
    ELSE IF common_prefix_len > NibblePrefixLen(stack[Len(stack) - 1].prefix)
    THEN common_prefix_len
    ELSE NibblePrefixLen(stack[Len(stack) - 1].prefix)

\* The closure pop_until_target.
RECURSIVE PopUntilTarget(_, _)
PopUntilTarget(stack, target) ==
    LET top_frame == stack[Len(stack)]
        common_prefix_len == CountPrefixLen(top_frame.prefix, target)
        popped == PopAndHash(stack, PopTarget(stack, common_prefix_len))
    IN  IF common_prefix_len = NibblePrefixLen(top_frame.prefix)
        THEN SortedOk(stack)
        ELSE IF popped.panic
        THEN popped
        ELSE PopUntilTarget(popped.v, target)

\* The loop over the input from pair i on: pop until the top frame is a
\* prefix of the path, then push the leaf.
RECURSIVE PushAll(_, _, _)
PushAll(st, pairs, i) ==
    LET popped == IF st.v # <<>>
                  THEN PopUntilTarget(st.v, pairs[i].key)
                  ELSE st
    IN  IF st.panic \/ i > Len(pairs)
        THEN st
        ELSE IF popped.panic
        THEN popped
        ELSE PushAll(SortedOk(Append(popped.v,
                                     StackFrameNewLeaf(pairs[i].key, pairs[i].value))),
                     pairs, i + 1)

\* The loop that pops everything but the first frame.
RECURSIVE PopAll(_)
PopAll(st) ==
    IF st.panic \/ Len(st.v) <= 1
    THEN st
    ELSE PopAll(PopAndHash(st.v, NibblePrefixLen(st.v[Len(st.v) - 1].prefix)))

\* The result: the digest of 0x80 for no frame, else the digest of the
\* encoding of the first frame.
SortedRoot(st) ==
    IF st.panic
    THEN [panic |-> TRUE, out |-> NoOutput]
    ELSE IF st.v = <<>>
    THEN [panic |-> FALSE, out |-> SomeOutput(Digest(<<128>>))]
    ELSE IF HashFrame(st.v[1], 0).panic
    THEN [panic |-> TRUE, out |-> NoOutput]
    ELSE [panic |-> FALSE, out |-> SomeOutput(Digest(HashFrame(st.v[1], 0).v))]

\* compute_hash_from_sorted_iter
ComputeHashFromSortedIter(pairs) == SortedRoot(PopAll(PushAll(SortedOk(<<>>), pairs, 1)))

\* The order of byte strings: a proper prefix first, else by the first
\* byte that differs.
KeyLess(a, b) ==
    \/ /\ Len(a) < Len(b)
       /\ \A i \in 1..Len(a) : a[i] = b[i]
    \/ \E i \in 1..Min(Len(a), Len(b)) :
          /\ a[i] < b[i]
          /\ \A j \in 1..(i - 1) : a[j] = b[j]

\* The inputs: the strictly ascending sequences of at most MaxPairs pairs.
SortedInputs ==
    { pairs \in UNION { [1..n -> [key : Keys, value : Values]] : n \in 0..MaxPairs } :
          \A i \in 1..(Len(pairs) - 1) : KeyLess(pairs[i].key, pairs[i + 1].key) }

\* A program that holds a sorted input in `hist` and has yet to call the
\* function; the trie of the variables stays new.
SortedInit ==
    /\ root_ref = TreeNew.root_ref
    /\ nodes = TreeNew.nodes
    /\ values = TreeNew.values
    /\ hash = TreeNew.hash
    /\ status = "ok"
    /\ hist \in SortedInputs
    /\ last = NoCall
    /\ node_hasher = NodeHasherNew(NodeHashDefault)

\* A call of compute_hash_from_sorted_iter(hist).
SortedIter ==
    /\ last.op = "new"
    /\ status' = IF ComputeHashFromSortedIter(hist).panic THEN "panic" ELSE "ok"
    /\ last' = Call("compute_hash_from_sorted_iter", <<>>, <<>>, None,
                    ComputeHashFromSortedIter(hist).out, FALSE)
    /\ UNCHANGED <<root_ref, nodes, values, hash, hist, node_hasher>>

SortedSpec == SortedInit /\ [][SortedIter]_vars

ChildRefs(arena, node_ref) ==
    IF ~SlabContains(arena, node_ref)
    THEN {}
    ELSE CASE SlabGet(arena, node_ref).kind = "Branch" ->
                  { SlabGet(arena, node_ref).choices[c] : c \in 0..15 } \ {INVALID_REF}
           [] SlabGet(arena, node_ref).kind = "Extension" ->
                  {SlabGet(arena, node_ref).child_ref}
           [] OTHER -> {}

\* The refs that a walk from the refs of `seen` comes across.
RECURSIVE Walk(_, _)
Walk(arena, seen) ==
    LET next == seen \cup UNION { ChildRefs(arena, r) : r \in seen }
    IN  IF next = seen THEN seen ELSE Walk(arena, next)

\* The refs a walk from the root comes across, live or not.
Reachable == IF IsValid(root_ref) THEN Walk(nodes, {root_ref}) ELSE {}

\* The reachable nodes of a kind.
ReachableKind(kind) ==
    { r \in Reachable : SlabContains(nodes, r) /\ SlabGet(nodes, r).kind = kind }

\* C13.  After every completed insert, the prefix of every reachable
\* Extension holds one nibble or more.
C13_ExtensionPrefix ==
    (status = "ok" /\ last.op = "insert")
        => \A r \in ReachableKind("Extension") : Len(SlabGet(nodes, r).prefix) >= 1

\* An insert has split the Extension at the root: the root is a Branch and
\* the tail of the prefix is kept in an Extension under it.
C13_Witness ==
    /\ status = "ok"
    /\ last.op = "insert"
    /\ Len(hist) = 3
    /\ hist[1].key = <<18, 0>>
    /\ hist[2].key = <<18>>
    /\ root_ref \in ReachableKind("Branch")
    /\ ChildRefs(nodes, root_ref) \cap ReachableKind("Extension") # {}

\* C14.  After every completed insert, the child of every reachable
\* Extension is a live Branch.
C14_ExtensionChild ==
    (status = "ok" /\ last.op = "insert")
        => \A r \in ReachableKind("Extension") :
               /\ SlabContains(nodes, SlabGet(nodes, r).child_ref)
               /\ SlabGet(nodes, SlabGet(nodes, r).child_ref).kind = "Branch"

\* An insert has gone through the Extension at the root to the Branch
\* under it: the Branch was taken out of the arena and stored again.
C14_Witness ==
    /\ status = "ok"
    /\ last.op = "insert"
    /\ Len(hist) = 3
    /\ hist[1].key = <<18>>
    /\ hist[2].key = <<19>>
    /\ hist[3].key = <<18, 0>>
    /\ root_ref \in ReachableKind("Extension")

\* C15.  After every completed insert, every reachable Branch has two
\* choices or more that are not the sentinel, or exactly one such choice and
\* a valid value_ref.
C15_BranchArity ==
    (status = "ok" /\ last.op = "insert")
        => \A r \in ReachableKind("Branch") :
               \/ Cardinality({ c \in 0..15 : IsValid(SlabGet(nodes, r).choices[c]) }) >= 2
               \/ /\ Cardinality({ c \in 0..15 : IsValid(SlabGet(nodes, r).choices[c]) }) = 1
                  /\ IsValid(SlabGet(nodes, r).value_ref)

\* C16.  After every completed insert, the root ref, every choice of a
\* reachable Branch that is not the sentinel and the child ref of every
\* reachable Extension name a live node; the value_ref of every reachable
\* Leaf and every valid value_ref of a reachable Branch name a live value;
\* no reachable Leaf carries the sentinel value_ref.
C16_LiveRefs ==
    (status = "ok" /\ last.op = "insert")
        => /\ SlabContains(nodes, root_ref)
           /\ \A r \in Reachable : SlabContains(nodes, r)
           /\ \A r \in ReachableKind("Leaf") :
                  /\ IsValid(SlabGet(nodes, r).value_ref)
                  /\ SlabContains(values, SlabGet(nodes, r).value_ref)
           /\ \A r \in ReachableKind("Branch") :
                  IsValid(SlabGet(nodes, r).value_ref)
                      => SlabContains(values, SlabGet(nodes, r).value_ref)

\* A third insert has returned on a trie in which an Extension, a Branch
\* and a Leaf are reachable.
C16_Witness ==
    /\ status = "ok"
    /\ last.op = "insert"
    /\ Len(hist) = 3
    /\ ReachableKind("Extension") # {}
    /\ ReachableKind("Branch") # {}
    /\ ReachableKind("Leaf") # {}

(***************************************************************************)
(* The cached hashes.                                                      *)
(***************************************************************************)
\* The arena with every cached hash dropped: compute_hash on it encodes
\* every node anew.
DirtyAll(arena) ==
    [arena EXCEPT !.entries =
        [i \in DOMAIN arena.entries |->
            [arena.entries[i] EXCEPT !.item.hash = NodeHashDefault]]]

\* Whether every node of the subtree at node_ref, found at key_offset,
\* that has a cached hash holds what compute_hash yields for it anew.
RECURSIVE Coherent(_, _)
Coherent(node_ref, key_offset) ==
    SlabContains(nodes, node_ref)
        => /\ SlabGet(nodes, node_ref).hash.length # 0
                => ExtractRef(SlabGet(nodes, node_ref).hash)
                       = NodeComputeHash(DirtyAll(nodes), values, node_ref, key_offset).out
           /\ SlabGet(nodes, node_ref).kind = "Branch"
                => \A c \in 0..15 :
                       IsValid(SlabGet(nodes, node_ref).choices[c])
                           => Coherent(SlabGet(nodes, node_ref).choices[c], key_offset + 1)
           /\ SlabGet(nodes, node_ref).kind = "Extension"
                => Coherent(SlabGet(nodes, node_ref).child_ref,
                            key_offset + Len(SlabGet(nodes, node_ref).prefix))

C18_Transparency ==
    (status = "ok" /\ last.op = "compute_hash")
        => RootAfter(hist) = [panic |-> FALSE, ret |-> last.out]

\* compute_hash has returned on a trie of which it had hashed a node
\* before, between two inserts: past its encoding, the buffer of the node
\* holds bytes of the longer encoding that the node had then.
C18_Witness ==
    /\ status = "ok"
    /\ last.op = "compute_hash"
    /\ \E r \in Reachable :
          /\ SlabContains(nodes, r)
          /\ SlabGet(nodes, r).hash.length \in 1..31
          /\ \E i \in (SlabGet(nodes, r).hash.length + 1)..32 :
                 SlabGet(nodes, r).hash.hash_ref[i] # 0

(***************************************************************************)
(* The node that an insert names.                                          *)
(***************************************************************************)
\* The point of PatriciaMerkleTree::insert at which the action is matched,
\* r being what the root node's insert returned: the root node is back in
\* the arena and InsertSelf stands for its ref.
Resolved(r) ==
    [panic |-> r.panic,
     root_ref |-> SlabInsert(r.nodes, r.node).key,
     nodes |-> SlabInsert(r.nodes, r.node).slab,
     action |-> QuantizeSelf(r.action, SlabInsert(r.nodes, r.node).key)]

\* That point for insert(path, _) on a trie that is not empty.
ResolvedFor(tree, path) ==
    Resolved(NodeInsert(SlabGet(tree.nodes, tree.root_ref),
                        SlabRemove(tree.nodes, tree.root_ref, VacantNode),
                        tree.values, NibbleSliceNew(path)))

\* The nibble paths that lead from node_ref to target: a choice of a Branch
\* adds its index, an Extension its prefix; acc is the path to node_ref.
RECURSIVE PathsTo(_, _, _, _)
PathsTo(arena, node_ref, target, acc) ==
    IF ~SlabContains(arena, node_ref)
    THEN {}
    ELSE (IF node_ref = target THEN {acc} ELSE {})
         \cup CASE SlabGet(arena, node_ref).kind = "Branch" ->
                       UNION { PathsTo(arena, SlabGet(arena, node_ref).choices[c],
                                       target, Append(acc, c)) :
                                   c \in { c \in 0..15 :
                                            IsValid(SlabGet(arena, node_ref).choices[c]) } }
                [] SlabGet(arena, node_ref).kind = "Extension" ->
                       PathsTo(arena, SlabGet(arena, node_ref).child_ref, target,
                               acc \o SlabGet(arena, node_ref).prefix)
                [] OTHER -> {}

\* Whether node_ref, in the trie at the point `res`, is a live Leaf or
\* Branch with the sentinel value_ref that sits on the path of key: a
\* Branch at the end of it, a Leaf at the end of a prefix of it.
NamesSlotFor(res, node_ref, key) ==
    /\ SlabContains(res.nodes, node_ref)
    /\ SlabGet(res.nodes, node_ref).kind \in {"Leaf", "Branch"}
    /\ SlabGet(res.nodes, node_ref).value_ref = INVALID_REF
    /\ PathsTo(res.nodes, res.root_ref, node_ref, <<>>) # {}
    /\ \A p \in PathsTo(res.nodes, res.root_ref, node_ref, <<>>) :
          IF SlabGet(res.nodes, node_ref).kind = "Branch"
          THEN p = Nibbles(key)
          ELSE Len(p) <= 2 * Len(key) /\ p = SubSeq(Nibbles(key), 1, Len(p))

\* C19.  Whenever insert resolves Insert(node_ref), InsertSelf standing for
\* the root, node_ref names a live Leaf or Branch whose value_ref is the
\* sentinel and whose nibble path from the root is that of the key.
C19_InsertTarget ==
    [][(/\ status = "ok"
        /\ last'.op = "insert"
        /\ SlabContains(nodes, root_ref)
        /\ ~ResolvedFor(Tree, last'.key).panic
        /\ ResolvedFor(Tree, last'.key).action.tag = "Insert")
          => NamesSlotFor(ResolvedFor(Tree, last'.key),
                          ResolvedFor(Tree, last'.key).action.ref, last'.key)]_vars

(***************************************************************************)
(* The split of a Leaf.                                                    *)
(***************************************************************************)
\* Whether the node at branch_ref is a Branch with exactly two children,
\* under a and b: the Leaf of old_key and the Leaf of new_key.
SplitBranch(branch_ref, a, b, old_key, new_key) ==
    /\ SlabContains(nodes, branch_ref)
    /\ SlabGet(nodes, branch_ref).kind = "Branch"
    /\ a # b
    /\ { c \in 0..15 : IsValid(SlabGet(nodes, branch_ref).choices[c]) } = {a, b}
    /\ \A c \in {a, b} :
          /\ SlabContains(nodes, SlabGet(nodes, branch_ref).choices[c])
          /\ SlabGet(nodes, SlabGet(nodes, branch_ref).choices[c]).kind = "Leaf"
          /\ SlabContains(values,
                 SlabGet(nodes, SlabGet(nodes, branch_ref).choices[c]).value_ref)
          /\ SlabGet(values,
                 SlabGet(nodes, SlabGet(nodes, branch_ref).choices[c]).value_ref).key
                 = (IF c = a THEN old_key ELSE new_key)

\* C20.  Leaf.insert with a path that parts from the stored key after p
\* common nibbles, neither being a prefix of the other, yields a Branch with
\* exactly two children, the existing Leaf under the key's nibble p and a
\* new Leaf under the path's, inside an Extension of the p common nibbles
\* if and only if p > 0; the new Leaf is the one the insert names.  Stated
\* for the Leaf at the root of a trie of one key.
C20_LeafSplit ==
    LET old_key == Nibbles(hist[1].key)
        new_key == Nibbles(hist[2].key)
        offset == CommonPrefixLen(old_key, new_key)
    IN  (/\ Len(hist) = 2
         /\ offset < Len(old_key)
         /\ offset < Len(new_key))
            => /\ status = "ok"
               /\ IF offset > 0
                  THEN /\ SlabContains(nodes, root_ref)
                       /\ SlabGet(nodes, root_ref).kind = "Extension"
                       /\ SlabGet(nodes, root_ref).prefix = SubSeq(old_key, 1, offset)
                       /\ SplitBranch(SlabGet(nodes, root_ref).child_ref,
                                      old_key[offset + 1], new_key[offset + 1],
                                      hist[1].key, hist[2].key)
                  ELSE SplitBranch(root_ref, old_key[offset + 1], new_key[offset + 1],
                                   hist[1].key, hist[2].key)

(***************************************************************************)
(* A key that is a prefix of another.                                      *)
(***************************************************************************)
\* C21.  When one of two keys is a proper nibble-prefix of the other, then
\* whichever is inserted first, the value of the shorter key is the value of
\* the Branch at the depth of the shorter key's length, the longer key sits
\* under that Branch's choice for its next nibble, and get returns the
\* value of each of the two keys.
C21_PrefixKeys ==
    LET first == Nibbles(hist[1].key)
        second == Nibbles(hist[2].key)
        short == IF Len(first) < Len(second) THEN hist[1] ELSE hist[2]
        long == IF Len(first) < Len(second) THEN hist[2] ELSE hist[1]
        depth == 2 * Len(short.key)
    IN  (/\ Len(hist) = 2
         /\ Len(first) # Len(second)
         /\ CommonPrefixLen(first, second) = depth)
            => /\ status = "ok"
               /\ TreeGet(Tree, short.key) = GetOk(Some(short.value))
               /\ TreeGet(Tree, long.key) = GetOk(Some(long.value))
               /\ \E b \in ReachableKind("Branch") :
                     /\ PathsTo(nodes, root_ref, b, <<>>) = {Nibbles(short.key)}
                     /\ SlabContains(values, SlabGet(nodes, b).value_ref)
                     /\ SlabGet(values, SlabGet(nodes, b).value_ref).key = short.key
                     /\ IsValid(SlabGet(nodes, b).choices[Nibbles(long.key)[depth + 1]])

(***************************************************************************)
(* The split of an Extension.                                              *)
(***************************************************************************)
\* C22.  Extension.insert with a path that shares p nibbles with the prefix,
\* p below the prefix length, splits the prefix into left, pivot and right
\* around p: the new Branch holds under the pivot the original child if
\* right is empty, else a new Extension of right over the original child;
\* the Branch is inside an Extension of left if and only if p > 0; the
\* original child is left as it was and stays on the same nibble path.
\* Stated for the Extension at the root.
C22_ExtensionSplit ==
    [][LET self == SlabGet(nodes, root_ref)
           offset == CommonPrefixLen(self.prefix, Nibbles(last'.key))
           left == SubSeq(self.prefix, 1, offset)
           pivot == self.prefix[offset + 1]
           right == SubSeq(self.prefix, offset + 2, Len(self.prefix))
           branch_ref == IF offset > 0 THEN SlabGet(nodes', root_ref').child_ref
                         ELSE root_ref'
           under == SlabGet(nodes', branch_ref).choices[pivot]
       IN  (/\ status = "ok"
            /\ last'.op = "insert"
            /\ SlabContains(nodes, root_ref)
            /\ self.kind = "Extension"
            /\ offset < Len(self.prefix))
              => /\ status' = "ok"
                 /\ SlabContains(nodes', root_ref')
                 /\ offset > 0 => /\ SlabGet(nodes', root_ref').kind = "Extension"
                                  /\ SlabGet(nodes', root_ref').prefix = left
                 /\ SlabContains(nodes', branch_ref)
                 /\ SlabGet(nodes', branch_ref).kind = "Branch"
                 /\ IF right = <<>>
                    THEN under = self.child_ref
                    ELSE /\ SlabContains(nodes', under)
                         /\ SlabGet(nodes', under).kind = "Extension"
                         /\ SlabGet(nodes', under).prefix = right
                         /\ SlabGet(nodes', under).child_ref = self.child_ref
                 /\ SlabContains(nodes', self.child_ref)
                 /\ SlabGet(nodes', self.child_ref) = SlabGet(nodes, self.child_ref)
                 /\ PathsTo(nodes', root_ref', self.child_ref, <<>>) = {self.prefix}]_vars

\* An insert has split the Extension of prefix 1, 2 at the root before its
\* first nibble: the root is a Branch that holds, under 1, an Extension of
\* prefix 2.
C22_Witness ==
    /\ status = "ok"
    /\ last.op = "insert"
    /\ Len(hist) = 3
    /\ root_ref \in ReachableKind("Branch")
    /\ \E r \in ReachableKind("Extension") :
          /\ SlabGet(nodes, root_ref).choices[1] = r
          /\ SlabGet(nodes, r).prefix = <<2>>

(***************************************************************************)
(* The nodes an insert creates.                                            *)
(***************************************************************************)
\* C23.  Across one insert the numbers of live Extension, of live Branch and
\* of live Leaf nodes each grow by at most one, and an insert of a key that
\* was inserted before, which overwrites its value, changes none of the
\* three.
C23_NodesCreated ==
    [][LET Live(arena, kind) ==
               Cardinality({ i \in 1..Len(arena.entries) :
                               arena.entries[i].occ /\ arena.entries[i].item.kind = kind })
       IN  (status = "ok" /\ status' = "ok" /\ last'.op = "insert")
              => \A kind \in {"Extension", "Branch", "Leaf"} :
                     /\ Live(nodes', kind) <= Live(nodes, kind) + 1
                     /\ last'.key \in KeysOf(hist)
                            => Live(nodes', kind) = Live(nodes, kind)]_vars

(***************************************************************************)
(* The NodeHasher on its own (hashing.rs): writes to a hasher over an      *)
(* empty cache, then finalize.  `hist` holds the writes made, each with    *)
(* its input under `key` and the bytes it passed to write_raw under        *)
(* `value`.                                                                *)
(***************************************************************************)
\* The number of writes made to one hasher.
MaxWrites == 2

\* The byte strings written: empty, one byte below and one from 0x80 on,
\* two bytes, 33 bytes, 56 and 60 bytes.
ByteStrings ==
    { <<>>, <<1>>, <<128>>, <<1, 2>>, LongValue,
      [i \in 1..56 |-> 3], [i \in 1..60 |-> 200] }

\* The nibble paths written: none to four nibbles.
NibblePaths == { <<>>, <<1>>, <<1, 2>>, <<10, 11, 12>>, <<1, 2, 3, 4>> }

\* The payload lengths of the list headers written.
ListLengths == { 0, 3, 55, 56, 300 }

\* All the bytes passed to write_raw by the writes made.
RECURSIVE Written(_)
Written(writes) ==
    IF writes = <<>> THEN <<>> ELSE Head(writes).value \o Written(Tail(writes))

\* NodeHasher::new over NodeHash::default().
HasherInit ==
    /\ root_ref = TreeNew.root_ref
    /\ nodes = TreeNew.nodes
    /\ values = TreeNew.values
    /\ hash = TreeNew.hash
    /\ status = "ok"
    /\ hist = <<>>
    /\ last = NoCall
    /\ node_hasher = NodeHasherNew(NodeHashDefault)

\* A write that passes `bytes` to write_raw for the input `input`.
HasherWrite(op, input, bytes) ==
    /\ last.op # "finalize"
    /\ Len(hist) < MaxWrites
    /\ node_hasher' = WriteRaw(node_hasher, bytes)
    /\ hist' = Append(hist, [key |-> input, value |-> bytes])
    /\ last' = Call(op, input, bytes, None, NoOutput, FALSE)
    /\ UNCHANGED <<root_ref, nodes, values, hash, status>>

\* A call of write_bytes(value).
HasherWriteBytes(value) == HasherWrite("write_bytes", value, WriteBytes(value))

\* A call of write_path_vec or write_path_slice (nibbles, kind).
HasherWritePath(nibbles, kind) ==
    HasherWrite(IF kind = "Leaf" THEN "write_path_leaf" ELSE "write_path_extension",
                nibbles, WritePath(nibbles, kind))

\* A call of write_list_header(children_len).
HasherWriteListHeader(children_len) ==
    HasherWrite("write_list_header", <<children_len>>, WriteListHeader(children_len))

\* A call of finalize(): node_hasher becomes the cache the node is left
\* with and the reference returned.
HasherFinalize ==
    /\ last.op # "finalize"
    /\ Written(hist) # <<>>
    /\ node_hasher' = Finalize(node_hasher)
    /\ last' = Call("finalize", <<>>, <<>>, None, NoOutput, FALSE)
    /\ UNCHANGED <<root_ref, nodes, values, hash, status, hist>>

HasherNext ==
    \/ \E value \in ByteStrings : HasherWriteBytes(value)
    \/ \E nibbles \in NibblePaths, kind \in {"Leaf", "Extension"} :
          HasherWritePath(nibbles, kind)
    \/ \E children_len \in ListLengths : HasherWriteListHeader(children_len)
    \/ HasherFinalize

HasherSpec == HasherInit /\ [][HasherNext]_vars

\* C24.  NodeHasher: for writes of n >= 1 bytes in all, finalize returns
\* Inline with exactly those bytes and leaves the cached length n if
\* n < 32, and else returns Hashed with the digest of all the n bytes and
\* leaves the cached length 32; the buffer holds less than 32 bytes before
\* every write.  That Hashed holds the digest of all the bytes is stated by
\* what makes it one: the change of any one byte written changes it.
C24_Finalize ==
    IF last.op # "finalize"
    THEN node_hasher.length < 32
    ELSE IF Len(Written(hist)) < 32
    THEN /\ node_hasher.out = Inline(Written(hist))
         /\ node_hasher.hash.length = Len(Written(hist))
    ELSE /\ node_hasher.out.kind = "Hashed"
         /\ node_hasher.hash.length = 32
         /\ \A i \in 1..Len(Written(hist)) :
               Finalize(WriteRaw(NodeHasherNew(NodeHashDefault),
                                 [Written(hist) EXCEPT ![i] = (@ + 1) % 256])).out
                   # node_hasher.out

\* C25.  write_bytes emits the canonical RLP encoding of a byte string: a
\* single byte below 0x80 as it is; a string of L < 56 bytes after the byte
\* 0x80 + L; a string of L >= 56 bytes after the byte 0xB7 + k and L in k
\* big-endian bytes, k being the least number of bytes that represent L.
C25_WriteBytes ==
    last.op = "write_bytes" => last.value = RlpString(last.key)

\* C27.  Hex-prefix encoding: write_path_vec and write_path_slice emit the
\* byte of the kind flag (0x00 extension, 0x20 leaf), of the odd flag 0x10
\* and of the first nibble of an odd path, then the remaining nibbles two
\* per byte, high nibble first: floor(L/2) + 1 bytes for L nibbles.
C27_HexPrefix ==
    /\ last.op = "write_path_leaf" => last.value = HexPrefix(last.key, "Leaf")
    /\ last.op = "write_path_extension" => last.value = HexPrefix(last.key, "Extension")
    /\ last.op \in {"write_path_leaf", "write_path_extension"}
          => Len(last.value) = (Len(last.key) \div 2) + 1

\* C26.  Length pre-computation: the payload length that the compute_hash
\* of a Branch or of an Extension passes to write_list_header is the number
\* of bytes it writes after the header and before finalize, and bytes_len
\* of a byte string is the number of bytes write_bytes emits for it.  A
\* node whose encoding of n < 32 bytes is cached holds the header of a
\* payload below 56 bytes, one byte, so the payload announced by the first
\* cached byte is n - 1.
C26_LengthPrecomputation ==
    /\ \A i \in 1..Len(nodes.entries) :
          LET node == nodes.entries[i].item
          IN  (/\ nodes.entries[i].occ
               /\ node.kind \in {"Branch", "Extension"}
               /\ node.hash.length \in 1..31)
                  => node.hash.hash_ref[1] - 192 = node.hash.length - 1
    /\ \A i \in 1..Len(values.entries) :
          LET value == values.entries[i].item.value
          IN  values.entries[i].occ
                  => BytesLen(Len(value), IF value = <<>> THEN 0 ELSE value[1])
                         = Len(WriteBytes(value))

\* C28.  The encoding of a Branch is an RLP list of exactly 17 items: for
\* each of the 16 choices 0x80 when it is absent, the child's encoding as
\* it is when that is below 32 bytes and the child's 32-byte hash as an RLP
\* byte string otherwise; then the value as an RLP byte string, 0x80 when
\* the Branch has no value.  Stated for every Branch whose cached encoding
\* is below 32 bytes and whose children are cached.
C28_BranchEncoding ==
    \A i \in 1..Len(nodes.entries) :
        LET self == nodes.entries[i].item
            Cached(hash_) == SubSeq(hash_.hash_ref, 1, hash_.length)
            Item(c) == IF ~IsValid(self.choices[c])
                       THEN <<128>>
                       ELSE IF SlabGet(nodes, self.choices[c]).hash.length < 32
                       THEN Cached(SlabGet(nodes, self.choices[c]).hash)
                       ELSE RlpString(SlabGet(nodes, self.choices[c]).hash.hash_ref)
            value_item == IF IsValid(self.value_ref)
                          THEN RlpString(SlabGet(values, self.value_ref).value)
                          ELSE <<128>>
        IN  (/\ status = "ok"
             /\ nodes.entries[i].occ
             /\ self.kind = "Branch"
             /\ self.hash.length \in 1..31
             /\ IsValid(self.value_ref) => SlabContains(values, self.value_ref)
             /\ \A c \in 0..15 :
                   IsValid(self.choices[c])
                       => /\ SlabContains(nodes, self.choices[c])
                          /\ SlabGet(nodes, self.choices[c]).hash.length # 0)
                => Cached(self.hash)
                       = RlpList(Item(0) \o Item(1) \o Item(2) \o Item(3)
                                 \o Item(4) \o Item(5) \o Item(6) \o Item(7)
                                 \o Item(8) \o Item(9) \o Item(10) \o Item(11)
                                 \o Item(12) \o Item(13) \o Item(14) \o Item(15)
                                 \o value_item)

\* C29.  Frame of insert: in every reachable state an insert of the key k
\* that returns leaves get of every other key as it was: a key that was
\* present keeps its value, a key that was absent is still absent.
C29_InsertFrame ==
    [][(status = "ok" /\ last'.op = "insert" /\ status' = "ok")
          => \A key \in Keys \ {last'.key} :
                 TreeGet(Tree', key) = TreeGet(Tree, key)]_vars

\* C30.  After every completed insert the live entries of the node arena
\* are the nodes reachable from the root, each by exactly one path (a tree:
\* no node is shared, none is on a cycle, none is leaked), and is_empty
\* holds if and only if the root ref is the sentinel and both arenas are
\* empty.
C30_ArenaIsTree ==
    (status = "ok" /\ last.op = "insert")
        => /\ { i - 1 : i \in { j \in 1..Len(nodes.entries) : nodes.entries[j].occ } }
                  = Reachable
           /\ \A r \in Reachable :
                  Cardinality(PathsTo(nodes, root_ref, r, <<>>)) = 1
           /\ TreeIsEmpty(Tree)
                  <=> (~IsValid(root_ref) /\ SlabLen(nodes) = 0 /\ SlabLen(values) = 0)

=============================================================================
